---- MODULE Spec2Model ----
(***************************************************************************)
(* The lead-harvesting pipeline of lead_finder.py: the generate_leads      *)
(* request handler, BusinessLeadFinder.search_location,                    *)
(* process_search_query, initialize_driver and the sqlite lead store.      *)
(* One thread per request, as the threaded server spawns them; the         *)
(* module-level lead_finder object (current_leads, target_leads, leads,    *)
(* the database) is shared by all of them. StoreSpec exercises the lead    *)
(* store by itself and ExtractorSpec runs extract_business_info field by   *)
(* field on single detail panels.                                          *)
(***************************************************************************)
EXTENDS Integers, Sequences, FiniteSets, TLC

\* while scroll_attempts < 20
ScrollLimit == 20
\* nearby_locations[city][:2]
NearbyTake == 2

\* bounds of the model
MaxTarget == 2
MaxListings == 4
PageSize == 2
MaxFaults == 1

Threads == {"t1", "t2"}
Targets == -1 .. MaxTarget

\* the request bodies: complete jobs for a city with nearby locations and for
\* one without, and jobs with one parameter missing
JobInputs ==
    [niche : {"plumber"}, city : {"Toronto"}, province : {"ON"}, target : Targets]
    \cup {[niche |-> "plumber", city |-> "Ottawa", province |-> "ON", target |-> MaxTarget],
          [niche |-> "", city |-> "Toronto", province |-> "ON", target |-> 1],
          [niche |-> "plumber", city |-> "", province |-> "ON", target |-> 1],
          [niche |-> "plumber", city |-> "Toronto", province |-> "", target |-> 1]}

NoJob == [niche |-> "", city |-> "", province |-> "", target |-> 0]
NoResponse == [status |-> 0, success |-> FALSE, leads_found |-> 0]
NoInfo == [business_name |-> "<None>", data |-> "<None>"]
NoElement == "<NoSuchElement>"
\* no detail panel, and no result of the extractor yet
NoPanel == [name |-> NoElement]
NoFields == [business_name |-> "<pending>"]

Min(a, b) == IF a < b THEN a ELSE b

VARIABLES
    \* the shared lead_finder object
    current_leads, target_leads, leads, store,
    \* the environment, fixed for a behaviour
    surface, overlap, faultsLeft,
    \* per request thread: generate_leads / search_location / process_search_query
    pc, job, response, locations, locIdx, driver, qIdx,
    last_height, scroll_attempts, processed_count, results,
    \* the page shown by the thread's browser
    revealed, height,
    \* bookkeeping of the run
    acquired, released, attempts, lastRun, baseline, disturbed,
    \* the last answer of fetch_leads, and whether the store was cleared
    \* with no row written since
    fetched, sinceClear,
    \* the detail panel of the listing the extractor works on, and its result
    element, info,
    \* the positions of the current query handed to the extractor, and the
    \* locations whose search has ended
    handed, locLog

shared == <<current_leads, target_leads, leads, store>>
env == <<surface, overlap>>
locals == <<pc, job, response, locations, locIdx, driver, qIdx,
            last_height, scroll_attempts, processed_count, results>>
page == <<revealed, height>>
book == <<acquired, released, attempts, lastRun, baseline, disturbed>>
client == <<fetched, sinceClear>>
panel == <<element, info>>
trace == <<handed, locLog>>
aside == <<client, panel, trace>>
vars == <<shared, env, faultsLeft, locals, page, book, aside>>

(***************************************************************************)
(* The search surface: every query exposes the same surface.n listings,    *)
(* PageSize more of them after each scroll; the page height grows with the *)
(* revealed listings or stays constant.                                    *)
(***************************************************************************)
Surfaces == [n : 0 .. MaxListings, grows : BOOLEAN]

NamePool == <<"Acme", "Bolt", NoElement, "">>

\* the listing at position i of the results of query number q
ListingAt(q, i) ==
    [name |-> NamePool[((i - 1) % Len(NamePool)) + 1],
     data |-> IF q % 2 = 1 THEN "d1" ELSE "d2"]

PageHeight(shown) == IF surface.grows THEN shown ELSE 1

\* search_queries of search_location
SearchQueries == <<"in", "local", "services", "best", "residential">>

\* nearby_locations of get_expanded_locations
NearbyLocations ==
    ("Toronto" :> <<"North York", "Scarborough", "Etobicoke">>) @@
    ("Vancouver" :> <<"Burnaby", "Richmond", "Surrey">>) @@
    ("Montreal" :> <<"Laval", "Longueuil", "Brossard">>) @@
    ("Calgary" :> <<"Airdrie", "Cochrane", "Chestermere">>) @@
    ("Mississauga" :> <<"Brampton", "Oakville", "Milton">>)

get_expanded_locations(city, province) ==
    <<[city |-> city, province |-> province]>> \o
    (IF city \in DOMAIN NearbyLocations
     THEN [i \in 1 .. Min(NearbyTake, Len(NearbyLocations[city])) |->
              [city |-> NearbyLocations[city][i], province |-> province]]
     ELSE <<>>)

\* not all([niche, city, province])
MissingParameters(in) == in.niche = "" \/ in.city = "" \/ in.province = ""

\* extract_business_info: None when the name element cannot be read or the
\* click fails, else the info dict
extract_business_info(listing, outcome) ==
    IF listing.name = NoElement \/ outcome = "click_failed"
    THEN NoInfo
    ELSE [business_name |-> listing.name, data |-> listing.data]

\* the row an INSERT OR REPLACE writes: lead.get('city', '')
RowOf(lead) ==
    [business_name |-> lead.business_name, city |-> lead.city, data |-> lead.data]

\* a uniqueness constraint declared over the wrong columns
SameKeyAndData(r, lead) ==
    r.business_name = lead.business_name /\ r.city = lead.city /\ r.data = lead.data

\* UNIQUE(business_name, city)
SameKey(r, lead) == r.business_name = lead.business_name /\ r.city = lead.city

\* a plain INSERT into a table without the constraint
InsertKeepingOld(st, lead) == Append(st, RowOf(lead))

\* INSERT OR REPLACE under UNIQUE(business_name, city): the conflicting row
\* is deleted and the new row inserted
InsertOrReplace(st, lead) ==
    Append(SelectSeq(st, LAMBDA r : ~SameKey(r, lead)), RowOf(lead))

\* the rows of a store as a set, for comparing contents
Content(st) == {st[i] : i \in 1 .. Len(st)}

NoRun == [valid |-> FALSE, job |-> NoJob, store |-> <<>>]

Running(j) == pc[j] \notin {"idle", "done"}

\* the outcomes of a step that can fail: the failures are drawn while the
\* fault budget lasts
Outcomes(failures) == {"ok"} \cup (IF faultsLeft > 0 THEN failures ELSE {})

\* the bookkeeping of a step of thread j that ended with outcome
Fault(j, outcome) ==
    /\ faultsLeft' = IF outcome = "ok" THEN faultsLeft ELSE faultsLeft - 1
    /\ disturbed' = [disturbed EXCEPT ![j] = @ \/ outcome # "ok"]

InitState ==
    /\ current_leads = 0
    /\ target_leads = 0
    /\ leads = <<>>
    /\ store = <<>>
    /\ surface \in Surfaces
    /\ faultsLeft = MaxFaults
    /\ job = [j \in Threads |-> NoJob]
    /\ response = [j \in Threads |-> NoResponse]
    /\ locations = [j \in Threads |-> <<>>]
    /\ locIdx = [j \in Threads |-> 1]
    /\ driver = [j \in Threads |-> FALSE]
    /\ qIdx = [j \in Threads |-> 1]
    /\ last_height = [j \in Threads |-> 0]
    /\ scroll_attempts = [j \in Threads |-> 0]
    /\ processed_count = [j \in Threads |-> 0]
    /\ results = [j \in Threads |-> 0]
    /\ revealed = [j \in Threads |-> 0]
    /\ height = [j \in Threads |-> 0]
    /\ acquired = [j \in Threads |-> 0]
    /\ released = [j \in Threads |-> 0]
    /\ attempts = [j \in Threads |-> 0]
    /\ lastRun = NoRun
    /\ baseline = [j \in Threads |-> NoRun]
    /\ disturbed = [j \in Threads |-> FALSE]
    /\ fetched = <<>>
    /\ sinceClear = "no"
    /\ handed = [j \in Threads |-> <<>>]
    /\ locLog = [j \in Threads |-> <<>>]

\* no detail panel is open
InitPanel == element = NoPanel /\ info = NoFields

\* requests are served one at a time
Init == InitState /\ InitPanel /\ overlap = FALSE /\ pc = [j \in Threads |-> "idle"]

\* one request, served alone
InitOneRun ==
    /\ InitState
    /\ InitPanel
    /\ overlap = FALSE
    /\ \E first \in Threads : pc = [j \in Threads |-> IF j = first THEN "idle" ELSE "done"]

\* the threaded server: requests may overlap; one surface, all of whose
\* listings fit MaxListings and whose height grows as they are revealed
InitOverlap ==
    /\ InitState
    /\ InitPanel
    /\ overlap = TRUE
    /\ pc = [j \in Threads |-> "idle"]
    /\ surface.n = MaxListings
    /\ surface.grows

\* the record of a location whose search_location call has returned: whether
\* a browser session was acquired and how many query variants were passed to
\* process_search_query
Searched(j, session, queries) ==
    [city |-> locations[j][locIdx[j]].city, session |-> session, queries |-> queries]

\* the end of process_search_query: its locals are dropped
EndQuery(j) ==
    /\ qIdx' = [qIdx EXCEPT ![j] = @ + 1]
    /\ last_height' = [last_height EXCEPT ![j] = 0]
    /\ scroll_attempts' = [scroll_attempts EXCEPT ![j] = 0]
    /\ processed_count' = [processed_count EXCEPT ![j] = 0]
    /\ results' = [results EXCEPT ![j] = 0]
    /\ handed' = [handed EXCEPT ![j] = <<>>]
    /\ pc' = [pc EXCEPT ![j] = "query_loop"]

\* a handler that resets the counter and keeps the list of the previous run
GenerateLeadsKeepingList(j, in) ==
    /\ pc[j] = "idle"
    /\ overlap \/ \A k \in Threads : ~Running(k)
    /\ job' = [job EXCEPT ![j] = in]
    /\ IF MissingParameters(in)
       THEN /\ response' = [response EXCEPT ![j] =
                               [status |-> 400, success |-> FALSE, leads_found |-> 0]]
            /\ pc' = [pc EXCEPT ![j] = "done"]
            /\ UNCHANGED <<shared, locations, locIdx, acquired, released,
                           attempts, baseline, disturbed, locLog>>
       ELSE /\ current_leads' = 0
            /\ target_leads' = in.target
            /\ leads' = leads
            /\ locations' = [locations EXCEPT ![j] =
                                get_expanded_locations(in.city, in.province)]
            /\ locIdx' = [locIdx EXCEPT ![j] = 1]
            /\ response' = [response EXCEPT ![j] = NoResponse]
            /\ pc' = [pc EXCEPT ![j] = "loc_loop"]
            /\ acquired' = [acquired EXCEPT ![j] = 0]
            /\ released' = [released EXCEPT ![j] = 0]
            /\ attempts' = [attempts EXCEPT ![j] = 0]
            /\ baseline' = [baseline EXCEPT ![j] =
                               IF lastRun.valid /\ lastRun.job = in THEN lastRun ELSE NoRun]
            /\ disturbed' = [disturbed EXCEPT ![j] = FALSE]
            /\ locLog' = [locLog EXCEPT ![j] = <<>>]
            /\ UNCHANGED store
    /\ UNCHANGED <<env, client, panel, handed, faultsLeft, driver, qIdx, last_height,
                   scroll_attempts, processed_count, results, page, lastRun>>

\* generate_leads up to the location loop: validation and the reset of the
\* shared counters
generate_leads(j, in) ==
    /\ pc[j] = "idle"
    /\ overlap \/ \A k \in Threads : ~Running(k)
    /\ job' = [job EXCEPT ![j] = in]
    /\ IF MissingParameters(in)
       THEN /\ response' = [response EXCEPT ![j] =
                               [status |-> 400, success |-> FALSE, leads_found |-> 0]]
            /\ pc' = [pc EXCEPT ![j] = "done"]
            /\ UNCHANGED <<shared, locations, locIdx, acquired, released,
                           attempts, baseline, disturbed, locLog>>
       ELSE /\ current_leads' = 0
            /\ target_leads' = in.target
            /\ leads' = <<>>
            /\ locations' = [locations EXCEPT ![j] =
                                get_expanded_locations(in.city, in.province)]
            /\ locIdx' = [locIdx EXCEPT ![j] = 1]
            /\ response' = [response EXCEPT ![j] = NoResponse]
            /\ pc' = [pc EXCEPT ![j] = "loc_loop"]
            /\ acquired' = [acquired EXCEPT ![j] = 0]
            /\ released' = [released EXCEPT ![j] = 0]
            /\ attempts' = [attempts EXCEPT ![j] = 0]
            /\ baseline' = [baseline EXCEPT ![j] =
                               IF lastRun.valid /\ lastRun.job = in THEN lastRun ELSE NoRun]
            /\ disturbed' = [disturbed EXCEPT ![j] = FALSE]
            /\ locLog' = [locLog EXCEPT ![j] = <<>>]
            /\ UNCHANGED store
    /\ UNCHANGED <<env, client, panel, handed, faultsLeft, driver, qIdx, last_height,
                   scroll_attempts, processed_count, results, page, lastRun>>

\* the location loop without its quota check
LocationLoopUnchecked(j) ==
    /\ pc[j] = "loc_loop"
    /\ IF locIdx[j] > Len(locations[j])
       THEN pc' = [pc EXCEPT ![j] = "respond"]
       ELSE pc' = [pc EXCEPT ![j] = "init_driver"]
    /\ attempts' = [attempts EXCEPT ![j] = 0]
    /\ UNCHANGED <<shared, env, aside, faultsLeft, job, response, locations, locIdx,
                   driver, qIdx, last_height, scroll_attempts, processed_count,
                   results, page, acquired, released, lastRun, baseline, disturbed>>

\* for search_city, search_province in locations: if current_leads >= target_leads: break
LocationLoop(j) ==
    /\ pc[j] = "loc_loop"
    /\ IF locIdx[j] > Len(locations[j]) \/ current_leads >= job[j].target
       THEN pc' = [pc EXCEPT ![j] = "respond"]
       ELSE pc' = [pc EXCEPT ![j] = "init_driver"]
    /\ attempts' = [attempts EXCEPT ![j] = 0]
    /\ UNCHANGED <<shared, env, aside, faultsLeft, job, response, locations, locIdx,
                   driver, qIdx, last_height, scroll_attempts, processed_count,
                   results, page, acquired, released, lastRun, baseline, disturbed>>

\* driver = self.initialize_driver(): the browser may fail to start, or start
\* and then fail in set_page_load_timeout; both return None
initialize_driver(j) ==
    /\ pc[j] = "init_driver"
    /\ \E outcome \in Outcomes({"start_failed", "configure_failed"}) :
          /\ driver' = [driver EXCEPT ![j] = outcome = "ok"]
          /\ acquired' = [acquired EXCEPT ![j] =
                              IF outcome = "start_failed" THEN @ ELSE @ + 1]
          /\ IF outcome = "ok"
             THEN /\ pc' = [pc EXCEPT ![j] = "query_loop"]
                  /\ qIdx' = [qIdx EXCEPT ![j] = 1]
             ELSE /\ pc' = [pc EXCEPT ![j] = "no_driver"]
                  /\ UNCHANGED qIdx
          /\ Fault(j, outcome)
    /\ attempts' = [attempts EXCEPT ![j] = @ + 1]
    /\ UNCHANGED <<shared, env, aside, job, response, locations, locIdx,
                   last_height, scroll_attempts, processed_count, results, page,
                   released, lastRun, baseline>>

\* a failed acquisition that ends the whole job
NoDriverAbortsJob(j) ==
    /\ pc[j] = "no_driver"
    /\ pc' = [pc EXCEPT ![j] = "respond"]
    /\ UNCHANGED <<shared, env, aside, faultsLeft, job, response, locations, locIdx,
                   driver, qIdx, last_height, scroll_attempts, processed_count,
                   results, page, book>>

\* if not driver: return  (the finally block finds no driver to quit)
NoDriver(j) ==
    /\ pc[j] = "no_driver"
    /\ locIdx' = [locIdx EXCEPT ![j] = @ + 1]
    /\ pc' = [pc EXCEPT ![j] = "loc_loop"]
    /\ locLog' = [locLog EXCEPT ![j] = Append(@, Searched(j, FALSE, 0))]
    /\ UNCHANGED <<shared, env, client, panel, handed, faultsLeft, job, response,
                   locations, driver, qIdx, last_height, scroll_attempts,
                   processed_count, results, page, book>>

\* the query loop without its quota check
QueryLoopUnchecked(j) ==
    /\ pc[j] = "query_loop"
    /\ IF qIdx[j] > Len(SearchQueries)
       THEN pc' = [pc EXCEPT ![j] = "quit"]
       ELSE pc' = [pc EXCEPT ![j] = "navigate"]
    /\ UNCHANGED <<shared, env, aside, faultsLeft, job, response, locations, locIdx,
                   driver, qIdx, last_height, scroll_attempts, processed_count,
                   results, page, book>>

\* for query in search_queries: if current_leads >= target_leads: break
QueryLoop(j) ==
    /\ pc[j] = "query_loop"
    /\ IF qIdx[j] > Len(SearchQueries) \/ current_leads >= target_leads
       THEN pc' = [pc EXCEPT ![j] = "quit"]
       ELSE pc' = [pc EXCEPT ![j] = "navigate"]
    /\ UNCHANGED <<shared, env, aside, faultsLeft, job, response, locations, locIdx,
                   driver, qIdx, last_height, scroll_attempts, processed_count,
                   results, page, book>>

\* process_search_query up to the scroll loop: driver.get and the wait for the
\* first div.Nv2PK; a timeout or an error returns
Navigate(j) ==
    /\ pc[j] = "navigate"
    /\ \E outcome \in Outcomes({"load_failed"}) :
          /\ Fault(j, outcome)
          /\ IF outcome = "ok" /\ surface.n > 0
             THEN /\ revealed' = [revealed EXCEPT ![j] = Min(surface.n, PageSize)]
                  /\ height' = [height EXCEPT ![j] =
                                    PageHeight(Min(surface.n, PageSize))]
                  /\ last_height' = [last_height EXCEPT ![j] = 0]
                  /\ scroll_attempts' = [scroll_attempts EXCEPT ![j] = 0]
                  /\ processed_count' = [processed_count EXCEPT ![j] = 0]
                  /\ pc' = [pc EXCEPT ![j] = "while"]
                  /\ UNCHANGED <<handed, qIdx, results>>
             ELSE /\ revealed' = [revealed EXCEPT ![j] = 0]
                  /\ height' = [height EXCEPT ![j] = 0]
                  /\ EndQuery(j)
    /\ UNCHANGED <<shared, env, client, panel, locLog, job, response, locations,
                   locIdx, driver, acquired, released, attempts, lastRun, baseline>>

\* while scroll_attempts < 20 and current_leads < target_leads:
\*     results = driver.find_elements(...)
While(j) ==
    /\ pc[j] = "while"
    /\ IF scroll_attempts[j] < ScrollLimit /\ current_leads < target_leads
       THEN \E outcome \in Outcomes({"find_failed"}) :
               /\ Fault(j, outcome)
               /\ IF outcome = "ok"
                  THEN /\ results' = [results EXCEPT ![j] = revealed[j]]
                       /\ pc' = [pc EXCEPT ![j] = "for"]
                       /\ UNCHANGED <<handed, qIdx, last_height, scroll_attempts,
                                      processed_count>>
                  ELSE EndQuery(j)
       ELSE /\ EndQuery(j)
            /\ UNCHANGED <<faultsLeft, disturbed>>
    /\ UNCHANGED <<shared, env, client, panel, locLog, job, response, locations,
                   locIdx, driver, page, acquired, released, attempts, lastRun,
                   baseline>>

\* the for loop without its quota check
ForResultUnchecked(j) ==
    /\ pc[j] = "for"
    /\ processed_count[j] < results[j]
    /\ pc' = [pc EXCEPT ![j] = "extract"]
    /\ UNCHANGED <<handed, qIdx, last_height, scroll_attempts, processed_count,
                   results>>
    /\ UNCHANGED <<shared, env, client, panel, locLog, faultsLeft, job, response,
                   locations, locIdx, driver, page, book>>

\* for result in results[processed_count:]: if current_leads >= target_leads: return
ForResult(j) ==
    /\ pc[j] = "for"
    /\ processed_count[j] < results[j]
    /\ IF current_leads >= target_leads
       THEN EndQuery(j)
       ELSE /\ pc' = [pc EXCEPT ![j] = "extract"]
            /\ UNCHANGED <<handed, qIdx, last_height, scroll_attempts,
                           processed_count, results>>
    /\ UNCHANGED <<shared, env, client, panel, locLog, faultsLeft, job, response,
                   locations, locIdx, driver, page, book>>

\* save_lead_to_db as this connection sees the table afterwards: an error in
\* execute writes nothing; an error in commit leaves the written row in the
\* connection's open transaction (no rollback), where later statements of
\* the same connection see it
save_lead_to_db(st, lead, outcome) ==
    IF outcome = "save_failed" THEN st ELSE InsertOrReplace(st, lead)

\* a loop body that advances processed_count only past the listings kept
ExtractCountingKept(j) ==
    /\ pc[j] = "extract"
    /\ \E outcome \in Outcomes({"click_failed", "save_failed", "commit_failed"}) :
          LET found == extract_business_info(
                           ListingAt(qIdx[j], processed_count[j] + 1), outcome)
              lead == [business_name |-> found.business_name,
                       city |-> locations[j][locIdx[j]].city,
                       data |-> found.data]
          IN  /\ outcome \in {"save_failed", "commit_failed"} => found # NoInfo
              /\ Fault(j, outcome)
              /\ IF found # NoInfo
                 THEN /\ leads' = Append(leads, lead)
                      /\ store' = save_lead_to_db(store, lead, outcome)
                      /\ sinceClear' = IF outcome = "save_failed" THEN sinceClear ELSE "no"
                      /\ current_leads' = current_leads + 1
                 ELSE UNCHANGED <<leads, store, sinceClear, current_leads>>
    /\ handed' = [handed EXCEPT ![j] = Append(@, processed_count[j] + 1)]
    /\ processed_count' = [processed_count EXCEPT ![j] = IF leads' # leads THEN @ + 1 ELSE @]
    /\ pc' = [pc EXCEPT ![j] = "for"]
    /\ UNCHANGED <<target_leads, env, fetched, panel, locLog, job, response, locations,
                   locIdx, driver, qIdx, last_height, scroll_attempts, results, page,
                   acquired, released, attempts, lastRun, baseline>>

\* the body of the for loop: extract, append, save, count
Extract(j) ==
    /\ pc[j] = "extract"
    /\ \E outcome \in Outcomes({"click_failed", "save_failed", "commit_failed"}) :
          LET found == extract_business_info(
                           ListingAt(qIdx[j], processed_count[j] + 1), outcome)
              lead == [business_name |-> found.business_name,
                       city |-> locations[j][locIdx[j]].city,
                       data |-> found.data]
          IN  /\ outcome \in {"save_failed", "commit_failed"} => found # NoInfo
              /\ Fault(j, outcome)
              /\ IF found # NoInfo
                 THEN /\ leads' = Append(leads, lead)
                      /\ store' = save_lead_to_db(store, lead, outcome)
                      /\ sinceClear' = IF outcome = "save_failed" THEN sinceClear ELSE "no"
                      /\ current_leads' = current_leads + 1
                 ELSE UNCHANGED <<leads, store, sinceClear, current_leads>>
    /\ handed' = [handed EXCEPT ![j] = Append(@, processed_count[j] + 1)]
    /\ processed_count' = [processed_count EXCEPT ![j] = @ + 1]
    /\ pc' = [pc EXCEPT ![j] = "for"]
    /\ UNCHANGED <<target_leads, env, fetched, panel, locLog, job, response, locations,
                   locIdx, driver, qIdx, last_height, scroll_attempts, results, page,
                   acquired, released, attempts, lastRun, baseline>>

\* the scroll step with a stability counter that is never advanced
ScrollNeverStable(j) ==
    /\ pc[j] = "for"
    /\ processed_count[j] >= results[j]
    /\ \E outcome \in Outcomes({"scroll_failed"}) :
          /\ Fault(j, outcome)
          /\ IF outcome = "ok"
             THEN LET shown == Min(surface.n, revealed[j] + PageSize)
                      new_height == PageHeight(shown)
                  IN  /\ revealed' = [revealed EXCEPT ![j] = shown]
                      /\ height' = [height EXCEPT ![j] = new_height]
                      /\ scroll_attempts' = [scroll_attempts EXCEPT ![j] = 0]
                      /\ last_height' = [last_height EXCEPT ![j] = new_height]
                      /\ pc' = [pc EXCEPT ![j] = "while"]
                      /\ UNCHANGED <<handed, qIdx, processed_count, results>>
             ELSE /\ EndQuery(j)
                  /\ UNCHANGED page
    /\ UNCHANGED <<shared, env, client, panel, locLog, job, response, locations,
                   locIdx, driver, acquired, released, attempts, lastRun, baseline>>

\* window.scrollTo(0, document.body.scrollHeight) and the height comparison;
\* an exception breaks out of the loop
Scroll(j) ==
    /\ pc[j] = "for"
    /\ processed_count[j] >= results[j]
    /\ \E outcome \in Outcomes({"scroll_failed"}) :
          /\ Fault(j, outcome)
          /\ IF outcome = "ok"
             THEN LET shown == Min(surface.n, revealed[j] + PageSize)
                      new_height == PageHeight(shown)
                  IN  /\ revealed' = [revealed EXCEPT ![j] = shown]
                      /\ height' = [height EXCEPT ![j] = new_height]
                      /\ IF new_height = last_height[j]
                         THEN /\ scroll_attempts' =
                                     [scroll_attempts EXCEPT ![j] = @ + 1]
                              /\ UNCHANGED last_height
                         ELSE /\ scroll_attempts' = [scroll_attempts EXCEPT ![j] = 0]
                              /\ last_height' = [last_height EXCEPT ![j] = new_height]
                      /\ pc' = [pc EXCEPT ![j] = "while"]
                      /\ UNCHANGED <<handed, qIdx, processed_count, results>>
             ELSE /\ EndQuery(j)
                  /\ UNCHANGED page
    /\ UNCHANGED <<shared, env, client, panel, locLog, job, response, locations,
                   locIdx, driver, acquired, released, attempts, lastRun, baseline>>

\* finally: if driver: driver.quit()
Quit(j) ==
    /\ pc[j] = "quit"
    /\ driver' = [driver EXCEPT ![j] = FALSE]
    /\ released' = [released EXCEPT ![j] = @ + 1]
    /\ revealed' = [revealed EXCEPT ![j] = 0]
    /\ height' = [height EXCEPT ![j] = 0]
    /\ locIdx' = [locIdx EXCEPT ![j] = @ + 1]
    /\ qIdx' = [qIdx EXCEPT ![j] = 1]
    /\ pc' = [pc EXCEPT ![j] = "loc_loop"]
    /\ locLog' = [locLog EXCEPT ![j] = Append(@, Searched(j, TRUE, qIdx[j] - 1))]
    /\ UNCHANGED <<shared, env, client, panel, handed, faultsLeft, job, response,
                   locations, last_height, scroll_attempts, processed_count, results,
                   acquired, attempts, lastRun, baseline, disturbed>>

\* return jsonify({'success': True, 'leads_found': len(lead_finder.leads), ...})
Respond(j) ==
    /\ pc[j] = "respond"
    /\ response' = [response EXCEPT ![j] =
                       [status |-> 200, success |-> TRUE, leads_found |-> Len(leads)]]
    /\ lastRun' = IF disturbed[j] THEN NoRun
                   ELSE [valid |-> TRUE, job |-> job[j], store |-> store]
    /\ locations' = [locations EXCEPT ![j] = <<>>]
    /\ locIdx' = [locIdx EXCEPT ![j] = 1]
    /\ pc' = [pc EXCEPT ![j] = "done"]
    /\ acquired' = [acquired EXCEPT ![j] = 0]
    /\ released' = [released EXCEPT ![j] = 0]
    /\ attempts' = [attempts EXCEPT ![j] = 0]
    /\ baseline' = [baseline EXCEPT ![j] = NoRun]
    /\ disturbed' = [disturbed EXCEPT ![j] = FALSE]
    /\ locLog' = [locLog EXCEPT ![j] = <<>>]
    /\ UNCHANGED <<shared, env, client, panel, handed, faultsLeft, job, driver, qIdx,
                   last_height, scroll_attempts, processed_count, results, page>>

\* a DELETE that spares the most recent row
DeleteAllButLast(st) == IF st = <<>> THEN st ELSE <<st[Len(st)]>>

\* DELETE FROM leads
DeleteFromLeads(st) == <<>>

\* the clear_leads request and clear_leads_db: DELETE FROM leads and commit;
\* an error in execute deletes nothing, an error in commit leaves the
\* deletion in the connection's open transaction; both are logged and
\* answered with success false
clear_leads_db ==
    /\ store # <<>>
    /\ overlap \/ \A k \in Threads : ~Running(k)
    /\ \E outcome \in Outcomes({"delete_failed", "commit_failed"}) :
          /\ faultsLeft' = IF outcome = "ok" THEN faultsLeft ELSE faultsLeft - 1
          /\ IF outcome # "delete_failed"
             THEN /\ store' = DeleteFromLeads(store)
                  /\ lastRun' = NoRun
                  /\ disturbed' = [j \in Threads |-> disturbed[j] \/ Running(j)]
             ELSE UNCHANGED <<store, lastRun, disturbed>>
          /\ sinceClear' = IF outcome = "ok" THEN "cleared" ELSE sinceClear
    /\ UNCHANGED <<current_leads, target_leads, leads, env, fetched, panel, trace,
                   locals, page, acquired, released, attempts, baseline>>

\* the steps of a request in progress
RunStep(j) ==
    \/ LocationLoop(j)
    \/ initialize_driver(j)
    \/ NoDriver(j)
    \/ QueryLoop(j)
    \/ Navigate(j)
    \/ While(j)
    \/ ForResult(j)
    \/ Extract(j)
    \/ Scroll(j)
    \/ Quit(j)
    \/ Respond(j)

Next ==
    \/ \E j \in Threads, in \in JobInputs : generate_leads(j, in)
    \/ \E j \in Threads : RunStep(j)
    \/ clear_leads_db

Spec == Init /\ [][Next]_vars

\* a request in progress keeps running: its thread is never suspended forever
FairSpec == InitOneRun /\ [][Next]_vars /\ \A j \in Threads : WF_vars(RunStep(j))

OverlapSpec == InitOverlap /\ [][Next]_vars

InLoop(j) == pc[j] \in {"while", "for", "extract"}

InvalidJob(in) == MissingParameters(in) \/ in.target <= 0

(***************************************************************************)
(* The lead store by itself: save_lead_to_db, clear_leads_db and           *)
(* fetch_leads called in any order on the one connection.                  *)
(***************************************************************************)
\* limit = request.args.get('limit', 100, type=int): any integer
Limits == {-1, 0, 1, 100}

StoreLeads == [business_name : {"Acme", "Bolt"}, city : {"Toronto"}, data : {"d1", "d2"}]

Reverse(st) == [i \in 1 .. Len(st) |-> st[Len(st) + 1 - i]]

\* SELECT * FROM leads ORDER BY timestamp DESC LIMIT ?: the most recently
\* written rows first (a negative LIMIT is no limit in sqlite); [] on an error
get_leads_from_db(st, limit, outcome) ==
    IF outcome = "fetch_failed" THEN <<>>
    ELSE IF limit < 0 THEN Reverse(st)
    ELSE SubSeq(Reverse(st), 1, Min(limit, Len(st)))

\* the fetch_leads request
fetch_leads(limit) ==
    /\ \E outcome \in Outcomes({"fetch_failed"}) :
          /\ fetched' = get_leads_from_db(store, limit, outcome)
          /\ faultsLeft' = IF outcome = "ok" THEN faultsLeft ELSE faultsLeft - 1
    /\ sinceClear' = IF sinceClear = "no" THEN "no" ELSE "listed"
    /\ UNCHANGED <<shared, env, locals, page, book, panel, trace>>

\* one call of save_lead_to_db
SaveLead(lead) ==
    /\ \E outcome \in Outcomes({"save_failed", "commit_failed"}) :
          /\ store' = save_lead_to_db(store, lead, outcome)
          /\ sinceClear' = IF outcome = "save_failed" THEN sinceClear ELSE "no"
          /\ faultsLeft' = IF outcome = "ok" THEN faultsLeft ELSE faultsLeft - 1
    /\ UNCHANGED <<current_leads, target_leads, leads, env, locals, page, book,
                   fetched, panel, trace>>

InitStore ==
    /\ InitState
    /\ InitPanel
    /\ overlap = FALSE
    /\ pc = [j \in Threads |-> "idle"]
    /\ surface = [n |-> 0, grows |-> FALSE]

StoreNext ==
    \/ \E lead \in StoreLeads : SaveLead(lead)
    \/ clear_leads_db
    \/ \E limit \in Limits : fetch_leads(limit)

StoreSpec == InitStore /\ [][StoreNext]_vars

(***************************************************************************)
(* Quota                                                                   *)
(***************************************************************************)

\* C1: with requests served one at a time and a positive target, the
\* collected count and the result list never exceed the target during a run,
\* and the reported leads_found is at most the target.
C1_QuotaRespected ==
    \A j \in Threads :
        /\ (Running(j) /\ job[j].target > 0) =>
               (current_leads <= job[j].target /\ Len(leads) <= job[j].target)
        /\ (response[j].status = 200 /\ job[j].target > 0) =>
               response[j].leads_found <= job[j].target

\* a run that reported a full quota although every query exposes more
\* listings than the target
C1_Witness ==
    \E j \in Threads :
        /\ response[j].status = 200
        /\ job[j].target > 0
        /\ response[j].leads_found = job[j].target
        /\ surface.n > job[j].target

\* C6: once the collected count has reached the target, the run is never
\* about to acquire a session, navigate to a query or extract a listing.
C6_NothingAfterQuota ==
    \A j \in Threads :
        (Running(j) /\ current_leads >= target_leads) =>
            pc[j] \notin {"init_driver", "navigate", "extract"}

\* the quota was reached while a revealed listing, query variants and nearby
\* locations were still left
C6_Witness ==
    \E j \in Threads :
        /\ pc[j] = "quit"
        /\ target_leads > 0
        /\ current_leads >= target_leads
        /\ Len(leads) < revealed[j]
        /\ qIdx[j] <= Len(SearchQueries)
        /\ locIdx[j] < Len(locations[j])

(***************************************************************************)
(* Lead store                                                              *)
(***************************************************************************)

\* C2: no two stored rows have the same (business_name, city).
C2_UniqueKeys ==
    \A a, b \in 1 .. Len(store) :
        (store[a].business_name = store[b].business_name /\ store[a].city = store[b].city)
            => a = b

\* a run collected the same key twice, with different scraped values, and
\* the store holds the later values
C2_Witness ==
    \E a, b \in 1 .. Len(leads) :
        /\ a < b
        /\ leads[a].business_name = leads[b].business_name
        /\ leads[a].city = leads[b].city
        /\ leads[a].data # leads[b].data
        /\ \E i \in 1 .. Len(store) : store[i] = RowOf(leads[b])

\* C3: a fault-free run of the job that the previous fault-free run had,
\* with no clear in between, ends with the store holding the same number of
\* rows and the same rows as at the end of the previous run.
C3_RerunIdempotent ==
    \A j \in Threads :
        (pc[j] = "respond" /\ baseline[j].valid /\ baseline[j].job = job[j]
            /\ ~disturbed[j]) =>
            (Len(store) = Len(baseline[j].store)
                /\ Content(store) = Content(baseline[j].store))

\* the second of two such runs has ended, with leads in the store
C3_Witness ==
    \E j \in Threads :
        /\ pc[j] = "respond"
        /\ baseline[j].valid
        /\ baseline[j].job = job[j]
        /\ ~disturbed[j]
        /\ Len(leads) > 0
        /\ Len(store) > 0

(***************************************************************************)
(* Sessions                                                                *)
(***************************************************************************)

\* C4: every browser started during a run is quit exactly once: none is
\* quit twice, and between locations and at the end of the run none is live.
C4_EverySessionReleased ==
    \A j \in Threads :
        /\ released[j] <= acquired[j]
        /\ pc[j] \in {"loc_loop", "respond"} => released[j] = acquired[j]

\* C7: a location is given up for lack of a session only after three
\* acquisition attempts.
C7_ThreeAttempts ==
    \A j \in Threads : pc[j] = "no_driver" => attempts[j] = 3

\* C10: a failed acquisition leaves the collected leads and the counter
\* alone and moves on to the next location, and a run ends only when the
\* target is met or every planned location has been attempted.
C10_SessionFailureIsLocal ==
    /\ [][\A j \in Threads :
            (pc[j] = "no_driver" /\ pc'[j] # "no_driver") =>
                /\ pc'[j] = "loc_loop"
                /\ locIdx'[j] = locIdx[j] + 1
                /\ leads' = leads
                /\ current_leads' = current_leads]_vars
    /\ [](\A j \in Threads :
            pc[j] = "respond" =>
                (current_leads >= job[j].target \/ locIdx[j] > Len(locations[j])))

\* the first location got no browser and the second one is being searched
C10_Witness ==
    \E j \in Threads :
        /\ pc[j] = "query_loop"
        /\ locIdx[j] = 2
        /\ driver[j]
        /\ acquired[j] = 1
        /\ released[j] = 0

(***************************************************************************)
(* Scroll loop                                                             *)
(***************************************************************************)

\* C5: the stability counter counts the consecutive scrolls that left the
\* height unchanged and is reset to 0 by a change, it never exceeds 20, the
\* loop is not entered again once it is 20, and the scroll loop of a query
\* is always left.
C5_ScrollLoopTerminates ==
    /\ [](\A j \in Threads : scroll_attempts[j] <= ScrollLimit)
    /\ [][\A j \in Threads :
            (pc[j] = "for" /\ pc'[j] = "while") =>
                scroll_attempts'[j] =
                    IF height'[j] = last_height[j] THEN scroll_attempts[j] + 1 ELSE 0]_vars
    /\ [][\A j \in Threads :
            (pc[j] = "while" /\ scroll_attempts[j] = ScrollLimit) =>
                pc'[j] \in {"while", "query_loop"}]_vars
    /\ \A j \in Threads : InLoop(j) ~> ~InLoop(j)

\* the loop is about to stop on its 20th unchanged height, the quota unmet
C5_Witness ==
    \E j \in Threads :
        /\ pc[j] = "while"
        /\ scroll_attempts[j] = ScrollLimit
        /\ current_leads < target_leads
        /\ last_height[j] = height[j]

(***************************************************************************)
(* Requests                                                                *)
(***************************************************************************)

\* C8: with overlapping requests, a job with a positive target reports at
\* most its own target.
C8_JobsIsolated ==
    \A j \in Threads :
        (response[j].status = 200 /\ job[j].target > 0) =>
            response[j].leads_found <= job[j].target

\* C9: a job with an empty niche, city or province or a non-positive target
\* is rejected: it never runs and is answered with an error.
C9_InvalidJobRejected ==
    \A j \in Threads :
        (job[j] # NoJob /\ InvalidJob(job[j])) =>
            (pc[j] = "done" /\ response[j].status = 400 /\ ~response[j].success)

(***************************************************************************)
(* extract_business_info field by field, on the detail panel of one        *)
(* listing. Texts that the code searches with a regular expression are     *)
(* sequences of characters.                                                *)
(***************************************************************************)
Digits == {"0", "1", "2", "3", "4", "5", "6", "7", "8", "9"}

\* the class [-.\s] without the space
SeparatorsNoSpace == {"-", "."}

\* the class [-.\s] of the phone pattern
Separators == {"-", ".", " "}

At(text, i) == IF i \in 1 .. Len(text) THEN text[i] ELSE "<end>"

DigitsAt(text, i, n) == \A k \in 0 .. n - 1 : At(text, i + k) \in Digits

NoMatch == [found |-> FALSE, g1 |-> <<>>, g2 |-> <<>>, g3 |-> <<>>]

\* \(?([0-9]{3})\)?[-.\s]?([0-9]{3})[-.\s]?([0-9]{4}) anchored at position p;
\* each optional character is followed by a digit class, so taking it
\* whenever it is there is the only way to match
MatchAt(text, p) ==
    LET a  == IF At(text, p) = "(" THEN p + 1 ELSE p
        b0 == IF At(text, a + 3) = ")" THEN a + 4 ELSE a + 3
        b  == IF At(text, b0) \in Separators THEN b0 + 1 ELSE b0
        c  == IF At(text, b + 3) \in Separators THEN b + 4 ELSE b + 3
    IN  IF DigitsAt(text, a, 3) /\ DigitsAt(text, b, 3) /\ DigitsAt(text, c, 4)
        THEN [found |-> TRUE, g1 |-> SubSeq(text, a, a + 2),
              g2 |-> SubSeq(text, b, b + 2), g3 |-> SubSeq(text, c, c + 3)]
        ELSE NoMatch

\* re.search: the leftmost position where the pattern matches
re_search(text) ==
    LET starts == {p \in 1 .. Len(text) : MatchAt(text, p).found}
    IN  IF starts = {} THEN NoMatch
        ELSE MatchAt(text, CHOOSE p \in starts : \A q \in starts : p <= q)

\* f"({match.group(1)}) {match.group(2)}-{match.group(3)}"
FormatPhone(m) == <<"(">> \o m.g1 \o <<")", " ">> \o m.g2 \o <<"-">> \o m.g3

\* for elem in phone_elems: the first label that matches sets the phone
PhoneOf(labels) ==
    LET hits == {i \in 1 .. Len(labels) : re_search(labels[i].text).found}
    IN  IF hits = {} THEN <<>>
        ELSE FormatPhone(re_search(labels[CHOOSE i \in hits : \A k \in hits : i <= k].text))

\* float(rating_elem.text.strip()): the texts that parse, in tenths
FloatOf == ("4.5" :> 45) @@ ("5" :> 50)

\* if '(' in reviews: re.search(r'\((\d+)\)', reviews); int(count.group(1))
ReviewCountOf == ("(12)" :> 12) @@ ("(7)" :> 7)

ReviewCount(text) == IF text \in DOMAIN ReviewCountOf THEN ReviewCountOf[text] ELSE 0

\* "\n".join([h.text for h in hours if h.text.strip()])
JoinRows(rows) == SelectSeq(rows, LAMBDA r : r # "")

DefaultHours == <<"Hours not available">>

\* extract_business_info returned None
NoneFields == [business_name |-> "<None>"]

\* the info dict as initialised, before the optional fields are read
InfoOf(name) ==
    [business_name |-> name, phone |-> <<>>, has_website |-> "No", website_url |-> "",
     business_hours |-> DefaultHours, rating |-> "<None>", review_count |-> 0]

\* the first inner try block: the rating, then the review count; an error
\* in either statement leaves the rest of the block unexecuted
RatingAndReviews(el, d) ==
    IF el.rating = NoElement \/ el.rating \notin DOMAIN FloatOf THEN d
    ELSE IF el.reviews = NoElement THEN [d EXCEPT !.rating = FloatOf[el.rating]]
    ELSE [d EXCEPT !.rating = FloatOf[el.rating], !.review_count = ReviewCount(el.reviews)]

Website(el, d) ==
    IF el.website = NoElement THEN d
    ELSE [d EXCEPT !.has_website = "Yes", !.website_url = el.website]

Phone(el, d) ==
    LET number == PhoneOf(el.phones)
    IN  IF number = <<>> THEN d ELSE [d EXCEPT !.phone = number]

\* the rows of a panel that has no hours button
NoButton == <<NoElement>>

Hours(el, d) ==
    IF el.hours = NoButton \/ el.hours = <<>> THEN d
    ELSE [d EXCEPT !.business_hours = JoinRows(el.hours)]

\* extract_business_info on a detail panel: None when the name element is
\* missing or the click fails, else the dict filled by the four try blocks
ExtractFields(el) ==
    IF el.name = NoElement \/ ~el.clickable THEN NoneFields
    ELSE Hours(el, Phone(el, Website(el, RatingAndReviews(el, InfoOf(el.name)))))

(***************************************************************************)
(* The panels the extractor is run on.                                     *)
(***************************************************************************)
Area == <<"4", "1", "6">>
Exchange == <<"5", "5", "5">>
Line == <<"0", "1", "9", "9">>

\* a phone label written from the ten digits with the given punctuation,
\* kept with the parts it was written from
Written(prefix, open, close, sep1, sep2) ==
    [text |-> prefix \o open \o Area \o close \o sep1 \o Exchange \o sep2 \o Line,
     number |-> Area \o Exchange \o Line,
     prefix |-> prefix, open |-> open, close |-> close, sep1 |-> sep1, sep2 |-> sep2]

\* a label that holds no ten-digit number
Unnumbered(text) ==
    [text |-> text, number |-> <<>>,
     prefix |-> <<>>, open |-> <<>>, close |-> <<>>, sep1 |-> <<>>, sep2 |-> <<>>]

Prefixes == {<<>>, <<"P", "h", ":", " ">>, <<"+", "1", " ">>, <<"+", "1">>}
Punctuation == {<<>>, <<"-">>, <<".">>, <<" ">>, <<"/">>, <<" ", "-", " ">>}

NumberedLabels ==
    {Written(prefix, open, close, sep1, sep2) :
        prefix \in Prefixes, open \in {<<>>, <<"(">>}, close \in {<<>>, <<")">>},
        sep1 \in Punctuation, sep2 \in Punctuation}

UnnumberedLabels ==
    {Unnumbered(<<"c", "a", "l", "l">>), Unnumbered(Exchange \o <<"-">> \o Line)}

\* the labels found on a panel: none, one, or one after a label without a number
LabelLists ==
    {<<>>} \cup {<<l>> : l \in NumberedLabels \cup UnnumberedLabels}
           \cup {<<Unnumbered(<<"c", "a", "l", "l">>), l>> : l \in NumberedLabels}

PlainPanel ==
    [name |-> "Acme", clickable |-> TRUE, rating |-> "4.5", reviews |-> "(12)",
     website |-> "http://acme.example", phones |-> <<>>,
     hours |-> <<"Mon 9-5", "", "Tue 9-5">>]

\* panels that differ in their phone labels
PhonePanels == {[PlainPanel EXCEPT !.phones = ls] : ls \in LabelLists}

\* panels that differ in which elements can be read
FieldPanels ==
    [name : {"Acme", "", NoElement}, clickable : BOOLEAN,
     rating : {"4.5", "New", NoElement}, reviews : {"(12)", "12 reviews", NoElement},
     website : {"http://acme.example", NoElement},
     phones : {<<>>, <<Written(<<>>, <<"(">>, <<")">>, <<" ">>, <<"-">>)>>},
     hours : {<<"Mon 9-5", "", "Tue 9-5">>, <<>>, NoButton}]

\* info = self.extract_business_info(result, driver)
ExtractDetail ==
    /\ info = NoFields
    /\ info' = ExtractFields(element)
    /\ UNCHANGED <<shared, env, faultsLeft, locals, page, book, client, element, trace>>

InitExtractor ==
    /\ InitState
    /\ overlap = FALSE
    /\ pc = [j \in Threads |-> "idle"]
    /\ surface = [n |-> 0, grows |-> FALSE]
    /\ element \in PhonePanels \cup FieldPanels
    /\ info = NoFields

ExtractorNext == ExtractDetail

ExtractorSpec == InitExtractor /\ [][ExtractorNext]_vars

(***************************************************************************)
(* Phone normalisation                                                     *)
(***************************************************************************)
Canonical(number) ==
    <<"(">> \o SubSeq(number, 1, 3) \o <<")", " ">> \o SubSeq(number, 4, 6)
            \o <<"-">> \o SubSeq(number, 7, 10)

\* the last phone label of the panel: the one written from a number, if any
LastLabel == element.phones[Len(element.phones)]

Extracted == info \notin {NoFields, NoneFields}

\* C12 as stated: a label holding a ten-digit number, whatever its
\* separators and parentheses, gives the phone (NNN) NNN-NNNN of those
\* digits; labels without such a number give the empty phone
C12_AnyPunctuation ==
    (Extracted /\ element.phones # <<>>) =>
        info.phone = IF LastLabel.number = <<>> THEN <<>> ELSE Canonical(LastLabel.number)

\* at most one character of '-', '.', ' ' between the groups, and no digit
\* directly before the first group
WellWritten(l) ==
    /\ l.number # <<>>
    /\ l.sep1 \in {<<>>, <<"-">>, <<".">>, <<" ">>}
    /\ l.sep2 \in {<<>>, <<"-">>, <<".">>, <<" ">>}
    /\ l.open = <<>> => (l.prefix = <<>> \/ l.prefix[Len(l.prefix)] \notin Digits)

\* some other punctuation between two groups
BadlyWritten(l) ==
    /\ l.number # <<>>
    /\ \/ l.sep1 \notin {<<>>, <<"-">>, <<".">>, <<" ">>}
       \/ l.sep2 \notin {<<>>, <<"-">>, <<".">>, <<" ">>}

\* C12, amended: a label whose ten digits are grouped 3-3-4 with at most one
\* character of '-', '.', whitespace between the groups, an optional '('
\* before and ')' after the first group and no digit directly before it
\* gives the phone (NNN) NNN-NNNN of those digits; a label with any other
\* punctuation between the groups, or without ten digits, gives the empty
\* phone
C12_PhoneOfPattern ==
    (Extracted /\ element.phones # <<>>) =>
        /\ WellWritten(LastLabel) => info.phone = Canonical(LastLabel.number)
        /\ (LastLabel.number = <<>> \/ BadlyWritten(LastLabel)) => info.phone = <<>>

\* "Ph: (416) 555-0199" after a label without a number was normalised
C12_Witness ==
    /\ Extracted
    /\ Len(element.phones) = 2
    /\ LastLabel.text = <<"P", "h", ":", " ", "(", "4", "1", "6", ")", " ",
                          "5", "5", "5", "-", "0", "1", "9", "9">>
    /\ info.phone = <<"(", "4", "1", "6", ")", " ", "5", "5", "5", "-", "0", "1", "9", "9">>

(***************************************************************************)
(* Clearing                                                                *)
(***************************************************************************)
\* C11: once clear_leads_db has succeeded, every fetch_leads made before the
\* next row is written answers with the empty list, whatever its limit
C11_EmptyAfterClear == sinceClear = "listed" => fetched = <<>>

\* a store holding rows was cleared and then listed, no call having failed
C11_Witness ==
    /\ sinceClear = "listed"
    /\ store = <<>>
    /\ faultsLeft = MaxFaults

(***************************************************************************)
(* Failures inside the scroll loop                                         *)
(***************************************************************************)
\* C13: when reading the listings or scrolling fails inside an iteration of
\* the scroll loop, the leads are kept and the loop goes on with the same
\* query
C13_LoopContinues ==
    [][\A j \in Threads :
          (pc[j] \in {"while", "for"} /\ faultsLeft' < faultsLeft) =>
              (pc'[j] \in {"while", "for", "extract"} /\ leads' = leads)]_vars

(***************************************************************************)
(* Duplicates within a run                                                 *)
(***************************************************************************)
\* C14: the result list of a run never holds two leads with the same
\* (business_name, city), so leads_found counts distinct keys
C14_NoDuplicateInRun ==
    \A a, b \in 1 .. Len(leads) : SameKey(leads[a], leads[b]) => a = b

(***************************************************************************)
(* Listings without a name                                                 *)
(***************************************************************************)
\* C15: no lead in the result list and no row of the store has an absent or
\* empty business_name
C15_NamelessDiscarded ==
    /\ \A i \in 1 .. Len(leads) : leads[i].business_name \notin {"", NoElement, "<None>"}
    /\ \A i \in 1 .. Len(store) : store[i].business_name \notin {"", NoElement, "<None>"}

(***************************************************************************)
(* Positions of a query                                                    *)
(***************************************************************************)
\* C16: within one query no position of the result list is handed to
\* extract_business_info twice
C16_PositionOnce ==
    \A j \in Threads : \A a, b \in 1 .. Len(handed[j]) :
        handed[j][a] = handed[j][b] => a = b

\* three positions were extracted over two scroll iterations of one query,
\* some kept and some discarded
C16_Witness ==
    \E j \in Threads :
        /\ handed[j] = <<1, 2, 3>>
        /\ Len(leads) \in {1, 2}

(***************************************************************************)
(* Nearby locations                                                        *)
(***************************************************************************)
\* search_location is about to be called for a nearby location
StartsNearby(j) == pc[j] = "init_driver" /\ locIdx[j] > 1

\* the first location is the requested one, and there is no other when the
\* city is not in the lookup
PrimaryFirst(j) ==
    Running(j) =>
        /\ locations[j][1] = [city |-> job[j].city, province |-> job[j].province]
        /\ job[j].city \notin DOMAIN NearbyLocations => Len(locations[j]) = 1

\* C17 as stated: a nearby location is searched only after all query
\* variants of the primary location were processed and while the target is
\* unmet; the primary location comes first and a city outside the lookup
\* gives one location
C17_NearbyAfterAllVariants ==
    \A j \in Threads :
        /\ PrimaryFirst(j)
        /\ StartsNearby(j) =>
              /\ current_leads < target_leads
              /\ locLog[j][1].city = job[j].city
              /\ locLog[j][1].queries = Len(SearchQueries)

\* C17, amended: a nearby location is searched only after the search of the
\* primary location has ended, with all its query variants processed or
\* with no browser session acquired for it, and only while the target is
\* unmet; the primary location comes first and a city outside the lookup
\* gives one location
C17_NearbyAfterPrimary ==
    \A j \in Threads :
        /\ PrimaryFirst(j)
        /\ StartsNearby(j) =>
              /\ current_leads < target_leads
              /\ locLog[j][1].city = job[j].city
              /\ \/ locLog[j][1].queries = Len(SearchQueries)
                 \/ ~locLog[j][1].session

\* a nearby location is about to be searched after the five variants of
\* the primary location were processed and found no lead
C17_Witness ==
    \E j \in Threads :
        /\ StartsNearby(j)
        /\ locLog[j][1].session
        /\ locLog[j][1].queries = Len(SearchQueries)
        /\ current_leads < target_leads
        /\ locations[j][locIdx[j]].city = "North York"

(***************************************************************************)
(* Independence of the optional fields                                     *)
(***************************************************************************)
\* C18: for a listing with a readable name, each of rating, review_count,
\* website, phone and hours takes its scraped value whenever that field
\* can be read, whichever other fields fail
C18_FieldsIndependent ==
    Extracted =>
        /\ element.rating \in DOMAIN FloatOf => info.rating = FloatOf[element.rating]
        /\ element.reviews \in DOMAIN ReviewCountOf =>
               info.review_count = ReviewCountOf[element.reviews]
        /\ element.website # NoElement =>
               (info.has_website = "Yes" /\ info.website_url = element.website)
        /\ (element.phones # <<>> /\ WellWritten(LastLabel)) =>
               info.phone = Canonical(LastLabel.number)
        /\ element.hours \notin {NoButton, <<>>} =>
               info.business_hours = JoinRows(element.hours)

(***************************************************************************)
(* Storage failures                                                        *)
(***************************************************************************)
\* C19: when save_lead_to_db fails for a lead, the store is as it was
\* before the call, the lead is in the result list, and the run goes on
\* with the next listing
C19_SaveFailureConfined ==
    [][\A j \in Threads :
          (pc[j] = "extract" /\ faultsLeft' < faultsLeft /\ leads' # leads) =>
              /\ store' = store
              /\ leads' = Append(leads, leads'[Len(leads')])
              /\ pc'[j] = "for"]_vars

(***************************************************************************)
(* The counter and the result list                                         *)
(***************************************************************************)
\* C20: with requests served one at a time, current_leads equals the
\* length of the result list between the steps of a run, a run starts with
\* both reset, and the leads_found it reports is that common value
C20_CounterMatchesList ==
    /\ [](current_leads = Len(leads))
    /\ [][\A j \in Threads :
            (pc[j] = "idle" /\ pc'[j] = "loc_loop") =>
                (current_leads' = 0 /\ leads' = <<>>)]_vars
    /\ [][\A j \in Threads :
            (pc[j] = "respond" /\ pc'[j] = "done") =>
                response'[j].leads_found = current_leads]_vars

\* a second run has collected its first lead after a run that reported two
C20_Witness ==
    \E j, k \in Threads :
        /\ pc[j] = "for"
        /\ pc[k] = "done"
        /\ response[k].leads_found = 2
        /\ current_leads = 1
        /\ Len(leads) = 1

====
